---- MODULE Spec2Model ----
(***************************************************************************)
(* Booking engine of the Aponti backend: the booking store, the schedule   *)
(* store and the handlers that write them (app/routers/booking.py,         *)
(* app/crud/crud_booking.py, app/routers/payments.py,                      *)
(* app/crud/crud_barber.py).  Timestamps are minutes counted from Monday   *)
(* 00:00, so weekday and wall-clock time are derived as the code derives   *)
(* them from a datetime.                                                   *)
(***************************************************************************)
EXTENDS Integers, Sequences, FiniteSets, TLC

(* ---------------------------------------------------------------------- *)
(* Bounds of the exploration                                              *)
(* ---------------------------------------------------------------------- *)
MaxBookings == 2

NumStarts == 3

(* ---------------------------------------------------------------------- *)
(* Time                                                                   *)
(* ---------------------------------------------------------------------- *)
DayMinutes == 24 * 60

Quarter == 15

BaseTime == 10 * 60

StartTimes == {BaseTime + Quarter * k : k \in 0..(NumStarts - 1)}

ClockValues == {BaseTime - Quarter, BaseTime, BaseTime + Quarter}

weekday(t) == (t \div DayMinutes) % 7

time_of_day(t) == t % DayMinutes

(* ---------------------------------------------------------------------- *)
(* Identities and catalogue (external collaborators of the engine)        *)
(* ---------------------------------------------------------------------- *)
UserIds == 1..4

users ==
  [u \in UserIds |->
     [email     |-> <<"user", u>>,
      is_barber |-> (u \in {2, 3, 4}),
      is_active |-> (u # 4)]]

NoBusiness == 0

InitServices ==
  <<[barber_id |-> 2, business_id |-> 1, duration |-> 30, price |-> 100],
    [barber_id |-> 2, business_id |-> NoBusiness, duration |-> 15, price |-> 50],
    [barber_id |-> 3, business_id |-> 1, duration |-> 30, price |-> 100],
    [barber_id |-> 4, business_id |-> 1, duration |-> 30, price |-> 100]>>

\* an id that resolves to no row
MissingId == Len(InitServices) + 1

Customers == {1}

ServiceInputs == {1, 2, 3, MissingId}

BarberInputs == {1, 2, 3}

(* ---------------------------------------------------------------------- *)
(* State                                                                  *)
(* ---------------------------------------------------------------------- *)
VARIABLES
  now,            \* datetime.now() as read by the handlers
  bookings,       \* table bookings: row id = index
  services,       \* table services: row id = index
  working_hours,  \* table working_hours, rows in insertion order
  payments,       \* table payments
  reqs,           \* create-booking requests in flight (concurrent admission)
  last            \* the response of the last finished handler

vars == <<now, bookings, services, working_hours, payments, reqs, last>>

BookingIds == DOMAIN bookings

(* ---------------------------------------------------------------------- *)
(* crud_booking.create_booking                                            *)
(* ---------------------------------------------------------------------- *)

\* A conflict filter that forgets the lower bound of the overlap test.
existing_booking_filter_start_only(b, barber_id, start_time, end_time) ==
  /\ b.barber_id = barber_id
  /\ b.start_time = start_time
  /\ b.status = "confirmed"

\* A conflict filter with closed instead of half-open intervals.
existing_booking_filter_closed(b, barber_id, start_time, end_time) ==
  /\ b.barber_id = barber_id
  /\ b.start_time <= end_time
  /\ b.end_time >= start_time
  /\ b.status = "confirmed"

\* The filter of the conflict query (Booking.barber_id ==, start_time <,
\* end_time >, status == "confirmed").
existing_booking_filter(b, barber_id, start_time, end_time) ==
  /\ b.barber_id = barber_id
  /\ b.start_time < end_time
  /\ b.end_time > start_time
  /\ b.status = "confirmed"

\* db.query(Booking).filter(...).first() evaluated on a snapshot of the table
existing_booking(table, barber_id, start_time, end_time) ==
  {i \in DOMAIN table :
     existing_booking_filter(table[i], barber_id, start_time, end_time)}

\* end_time = start_time + a quarter of an hour, whatever the service
booking_end_time_quarter(service_id, start_time) ==
  start_time + Quarter

\* end_time = start_time + timedelta(minutes=service.duration)
booking_end_time(service_id, start_time) ==
  start_time + services[service_id].duration

\* Booking(**booking_data) with status "confirmed"
new_booking(user_id, barber_id, service_id, start_time) ==
  [user_id        |-> user_id,
   barber_id      |-> barber_id,
   service_id     |-> service_id,
   start_time     |-> start_time,
   end_time       |-> booking_end_time(service_id, start_time),
   status         |-> "confirmed",
   customer_email |-> users[user_id].email]

\* Outcome of create_booking up to the conflict check.
create_booking_check(table, barber_id, service_id, start_time) ==
  IF service_id \notin DOMAIN services
    THEN "ServiceNotFound"
    ELSE IF existing_booking(table, barber_id, start_time,
                             booking_end_time(service_id, start_time)) # {}
           THEN "SlotConflict"
           ELSE "ok"

(* ---------------------------------------------------------------------- *)
(* booking.create_new_booking                                             *)
(* ---------------------------------------------------------------------- *)

\* The router's validation before it calls create_booking.
\* the checks of the router with the service looked up by its id alone
create_new_booking_validate_any_service(barber_id, service_id, start_time) ==
  IF ~(barber_id \in UserIds /\ users[barber_id].is_barber)
    THEN "BarberNotFound"
    ELSE IF service_id \notin DOMAIN services
           THEN "ServiceNotFound"
           ELSE IF start_time < now
                  THEN "InvalidTime"
                  ELSE "ok"

create_new_booking_validate(barber_id, service_id, start_time) ==
  IF ~(barber_id \in UserIds /\ users[barber_id].is_barber)
    THEN "BarberNotFound"
    ELSE IF ~(service_id \in DOMAIN services
              /\ services[service_id].barber_id = barber_id)
           THEN "ServiceNotFound"
           ELSE IF start_time < now
                  THEN "InvalidTime"
                  ELSE "ok"

\* Result of the whole handler when it runs without interleaving.
create_new_booking_result(barber_id, service_id, start_time) ==
  LET v == create_new_booking_validate(barber_id, service_id, start_time)
  IN  IF v # "ok"
        THEN v
        ELSE create_booking_check(bookings, barber_id, service_id, start_time)

\* The finished call as its caller sees it: operation, booking id, requested
\* start (create only) and outcome.
Response(op, id, at, result) ==
  [op |-> op, id |-> id, at |-> at, result |-> result]

\* POST /bookings/ : one request served from validation to commit.
create_new_booking(user_id, barber_id, service_id, start_time) ==
  /\ Len(bookings) < MaxBookings
  /\ users[user_id].is_active
  /\ LET res == create_new_booking_result(barber_id, service_id, start_time)
     IN  IF res = "ok"
           THEN /\ bookings' = Append(bookings,
                     new_booking(user_id, barber_id, service_id, start_time))
                /\ last' = Response("create", Len(bookings) + 1, start_time, "ok")
           ELSE /\ bookings' = bookings
                /\ last' = Response("create", 0, start_time, res)
  /\ UNCHANGED <<now, services, working_hours, payments, reqs>>

\* POST /bookings/ when db.commit() raises: the router answers 400 and the
\* transaction, the new row with it, is rolled back.
create_new_booking_commit_fails(user_id, barber_id, service_id, start_time) ==
  /\ Len(bookings) < MaxBookings
  /\ users[user_id].is_active
  /\ create_new_booking_result(barber_id, service_id, start_time) = "ok"
  /\ bookings' = bookings
  /\ last' = Response("create", 0, start_time, "BadRequest")
  /\ UNCHANGED <<now, services, working_hours, payments, reqs>>

\* POST /bookings/ when db.refresh() raises after the commit: the row is
\* stored and the router answers 400.
create_new_booking_refresh_fails(user_id, barber_id, service_id, start_time) ==
  /\ Len(bookings) < MaxBookings
  /\ users[user_id].is_active
  /\ create_new_booking_result(barber_id, service_id, start_time) = "ok"
  /\ bookings' = Append(bookings,
                    new_booking(user_id, barber_id, service_id, start_time))
  /\ last' = Response("create", 0, start_time, "BadRequest")
  /\ UNCHANGED <<now, services, working_hours, payments, reqs>>

(* ---------------------------------------------------------------------- *)
(* crud_booking.cancel_booking and booking.cancel_my_booking              *)
(* ---------------------------------------------------------------------- *)

\* A cancellation that cancels every booking of the same provider.
cancel_booking_all_of_barber(table, booking_id) ==
  [i \in DOMAIN table |->
     IF table[i].barber_id = table[booking_id].barber_id
       THEN [table[i] EXCEPT !.status = "cancelled"]
       ELSE table[i]]

\* booking.status = "cancelled"; db.commit()
cancel_booking(table, booking_id) ==
  [table EXCEPT ![booking_id].status = "cancelled"]

\* The ownership query of the router: id and customer_email of the caller.
cancel_my_booking_found(user_id, booking_id) ==
  /\ booking_id \in BookingIds
  /\ bookings[booking_id].customer_email = users[user_id].email

\* POST /bookings/{booking_id}/cancel
cancel_my_booking(user_id, booking_id) ==
  /\ users[user_id].is_active
  /\ IF cancel_my_booking_found(user_id, booking_id)
       THEN /\ bookings' = cancel_booking(bookings, booking_id)
            /\ last' = Response("cancel", booking_id, 0, "ok")
       ELSE /\ bookings' = bookings
            /\ last' = Response("cancel", booking_id, 0, "NotFound")
  /\ UNCHANGED <<now, services, working_hours, payments, reqs>>

(* ---------------------------------------------------------------------- *)
(* slots.is_slot_available                                                *)
(* ---------------------------------------------------------------------- *)

\* the same query without the filter on Booking.barber_id
is_slot_available_any_worker(table, worker_id, slot_start, slot_end) ==
  ~\E i \in DOMAIN table :
      /\ table[i].status # "cancelled"
      /\ table[i].status # "rejected"
      /\ table[i].start_time < slot_end
      /\ table[i].end_time > slot_start

\* no booking of the worker, other than cancelled or rejected ones, with
\* start_time < slot_end and end_time > slot_start
is_slot_available(table, worker_id, slot_start, slot_end) ==
  ~\E i \in DOMAIN table :
      /\ table[i].barber_id = worker_id
      /\ table[i].status # "cancelled"
      /\ table[i].status # "rejected"
      /\ table[i].start_time < slot_end
      /\ table[i].end_time > slot_start

(* ---------------------------------------------------------------------- *)
(* barber.set_barber_working_hours / crud_barber.update_barber_working_hours *)
(* ---------------------------------------------------------------------- *)
Rule(day, s, e, w) ==
  [day_of_week |-> day, start_time |-> s, end_time |-> e, is_working |-> w]

HoursInputs ==
  {<<>>,
   <<Rule(0, BaseTime, BaseTime + 2 * Quarter, TRUE)>>,
   <<Rule(0, BaseTime, BaseTime + 2 * Quarter, FALSE),
     Rule(1, BaseTime, BaseTime + 4 * Quarter, TRUE)>>}

\* delete the provider's rows, then add one row per submitted rule; commit
update_barber_working_hours(table, barber_id, submitted) ==
  SelectSeq(table, LAMBDA wh : wh.barber_id # barber_id)
    \o [k \in 1..Len(submitted) |->
          [barber_id   |-> barber_id,
           day_of_week |-> submitted[k].day_of_week,
           start_time  |-> submitted[k].start_time,
           end_time    |-> submitted[k].end_time,
           is_working  |-> submitted[k].is_working]]

\* PUT /barbers/{barber_id}/working-hours
set_barber_working_hours(user_id, barber_id, submitted) ==
  /\ users[user_id].is_active
  /\ IF user_id # barber_id \/ ~users[user_id].is_barber
       THEN /\ working_hours' = working_hours
            /\ last' = Response("hours", barber_id, 0, "Forbidden")
       ELSE /\ working_hours' =
                 update_barber_working_hours(working_hours, barber_id, submitted)
            /\ last' = Response("hours", barber_id, 0, "ok")
  /\ UNCHANGED <<now, bookings, services, payments, reqs>>

(* ---------------------------------------------------------------------- *)
(* availability reads: slots.get_available_slots,                         *)
(* crud_booking.get_available_slots, booking.get_available_times          *)
(* ---------------------------------------------------------------------- *)

\* A date is a day number (day 0 is a Monday), a time of day is a number of
\* minutes since midnight, a datetime is a number of minutes since day 0 00:00.
combine(date, t) == date * DayMinutes + t

\* time.hour and time.minute
hour(t) == t \div 60

minute(t) == t % 60

\* time(hour=h, minute=m)
time(h, m) == h * 60 + m

\* strftime("%H:%M") / f"{hour:02d}:{minute:02d}": the pair of its two fields
time_slot(h, m) == <<h, m>>

\* datetime.strptime(time_slot, "%H:%M").time()
strptime(ts) == time(ts[1], ts[2])

time_to_minutes(t) == hour(t) * 60 + minute(t)

minutes_to_time(minutes) == time(minutes \div 60, minutes % 60)

\* default of generate_time_slots' parameter slot_interval
slot_interval == 15

\* the while loop of generate_time_slots, from current_minutes on
RECURSIVE generate_time_slots_from(_, _, _)
generate_time_slots_from(current_minutes, end_minutes, service_duration) ==
  IF current_minutes + service_duration <= end_minutes
    THEN <<minutes_to_time(current_minutes)>>
           \o generate_time_slots_from(current_minutes + slot_interval,
                                       end_minutes, service_duration)
    ELSE <<>>

generate_time_slots(start_time, end_time, service_duration) ==
  generate_time_slots_from(time_to_minutes(start_time),
                           time_to_minutes(end_time), service_duration)

\* WorkingHours rows of the provider for the weekday, in table order; the
\* handlers take .first() of them.
working_hours_of(barber_id, day_of_week) ==
  SelectSeq(working_hours,
            LAMBDA wh : wh.barber_id = barber_id /\ wh.day_of_week = day_of_week)

\* the same query with the filter is_working == True
working_hours_working(barber_id, day_of_week) ==
  SelectSeq(working_hours_of(barber_id, day_of_week), LAMBDA wh : wh.is_working)

\* What an availability read answers: a status and the slot sequence.
SlotsAnswer(result, slots) == [result |-> result, slots |-> slots]

\* GET /slots/available: the worker must be a barber and the service must
\* exist; one TimeSlot per generated time, flagged by is_slot_available.
get_available_slots_response(table, worker_id, service_id, date) ==
  IF worker_id \notin UserIds \/ ~users[worker_id].is_barber
    THEN SlotsAnswer("NotFound", <<>>)
  ELSE IF service_id \notin DOMAIN services
    THEN SlotsAnswer("NotFound", <<>>)
  ELSE
    LET rows == working_hours_working(worker_id, weekday(combine(date, 0)))
    IN  IF rows = <<>>
          THEN SlotsAnswer("ok", <<>>)
          ELSE
            LET possible_times ==
                  generate_time_slots(Head(rows).start_time, Head(rows).end_time,
                                      services[service_id].duration)
                slot(k) ==
                  LET slot_start == combine(date, possible_times[k])
                      slot_end   == slot_start + services[service_id].duration
                  IN  [start_time |-> slot_start,
                       end_time   |-> slot_end,
                       available  |->
                         is_slot_available(table, worker_id, slot_start, slot_end)]
            IN  SlotsAnswer("ok", [k \in 1..Len(possible_times) |-> slot(k)])

\* The bookings the two list reads load: the provider's, starting on the date.
bookings_of_day(table, barber_id, date) ==
  {i \in DOMAIN table :
     /\ table[i].barber_id = barber_id
     /\ table[i].start_time >= combine(date, 0)
     /\ table[i].start_time <= combine(date, DayMinutes - 1)}

\* the while loop of crud_booking.get_available_slots, from current_time on
RECURSIVE available_slots_from(_, _, _, _, _)
available_slots_from(table, loaded, current_time, end_time, slot_duration) ==
  IF current_time + slot_duration <= end_time
    THEN (IF \E i \in loaded :
                /\ current_time < table[i].end_time
                /\ current_time + slot_duration > table[i].start_time
            THEN <<>>
            ELSE <<current_time>>)
           \o available_slots_from(table, loaded, current_time + Quarter,
                                   end_time, slot_duration)
    ELSE <<>>

\* crud_booking.get_available_slots: None when the service is missing
crud_get_available_slots(table, barber_id, service_id, selected_date) ==
  IF service_id \notin DOMAIN services
    THEN SlotsAnswer("None", <<>>)
  ELSE
    LET rows == working_hours_working(barber_id, weekday(combine(selected_date, 0)))
    IN  IF rows = <<>>
          THEN SlotsAnswer("ok", <<>>)
          ELSE
            LET loaded ==
                  {i \in bookings_of_day(table, barber_id, selected_date) :
                     table[i].status = "confirmed"}
            IN  SlotsAnswer("ok",
                  available_slots_from(table, loaded,
                    combine(selected_date, Head(rows).start_time),
                    combine(selected_date, Head(rows).end_time),
                    services[service_id].duration))

\* GET /bookings/available-slots answering 404 for an empty list as well
get_available_time_slots_response_empty_404(table, barber_id, service_id, date) ==
  LET slots == crud_get_available_slots(table, barber_id, service_id, date)
  IN  IF slots.result = "None" \/ slots.slots = <<>>
        THEN SlotsAnswer("NotFound", <<>>)
        ELSE slots

\* GET /bookings/available-slots: 404 if not slots, and only None is falsy
get_available_time_slots_response(table, barber_id, service_id, date) ==
  LET slots == crud_get_available_slots(table, barber_id, service_id, date)
  IN  IF slots.result = "None"
        THEN SlotsAnswer("NotFound", <<>>)
        ELSE slots

\* for minute in [0, 30]
half_hours == <<0, 30>>

\* The body of the two loops of get_available_times for one hour: the slots
\* of the hour that are kept.
available_times_of_hour(table, loaded, h, working_end, date, duration) ==
  LET candidates == [k \in DOMAIN half_hours |-> time_slot(h, half_hours[k])]
      kept(ts) ==
        LET slot_datetime == combine(date, strptime(ts))
            slot_end      == slot_datetime + duration
        IN  /\ ~(h = working_end /\ ts[2] > 0)
            /\ ~(slot_datetime < now)
            /\ ~\E i \in loaded :
                  /\ slot_datetime < table[i].start_time + duration
                  /\ slot_end > table[i].start_time
  IN  SelectSeq(candidates, kept)

\* for hour in range(working_start, working_end + 1), from hour h on
RECURSIVE available_times_from(_, _, _, _, _, _)
available_times_from(table, loaded, h, working_end, date, duration) ==
  IF h <= working_end
    THEN available_times_of_hour(table, loaded, h, working_end, date, duration)
           \o available_times_from(table, loaded, h + 1, working_end, date, duration)
    ELSE <<>>

\* GET /bookings/available-times
get_available_times_response(table, barber_id, service_id, date) ==
  IF service_id \notin DOMAIN services
    THEN SlotsAnswer("NotFound", <<>>)
  ELSE
    LET rows == working_hours_of(barber_id, weekday(combine(date, 0)))
    IN  IF rows = <<>> \/ ~Head(rows).is_working
          THEN SlotsAnswer("ok", <<>>)
          ELSE
            LET loaded ==
                  {i \in bookings_of_day(table, barber_id, date) :
                     table[i].status # "cancelled"}
            IN  SlotsAnswer("ok",
                  available_times_from(table, loaded,
                    hour(Head(rows).start_time), hour(Head(rows).end_time),
                    date, services[service_id].duration))

\* The response of a read, with the arguments of the call.
ReadResponse(op, worker_id, service_id, date, answer) ==
  [op |-> op, id |-> worker_id, at |-> date, result |-> answer.result,
   service_id |-> service_id, slots |-> answer.slots]

\* GET /slots/available
get_available_slots(worker_id, service_id, date) ==
  /\ last' = ReadResponse("slots_available", worker_id, service_id, date,
               get_available_slots_response(bookings, worker_id, service_id, date))
  /\ UNCHANGED <<now, bookings, services, working_hours, payments, reqs>>

\* GET /bookings/available-slots
get_available_time_slots(barber_id, service_id, date) ==
  /\ last' = ReadResponse("available_slots", barber_id, service_id, date,
               get_available_time_slots_response(bookings, barber_id, service_id, date))
  /\ UNCHANGED <<now, bookings, services, working_hours, payments, reqs>>

\* GET /bookings/available-times that also cancels the bookings it loaded
get_available_times_cancelling(barber_id, service_id, date) ==
  /\ last' = ReadResponse("available_times", barber_id, service_id, date,
               get_available_times_response(bookings, barber_id, service_id, date))
  /\ bookings' = [i \in DOMAIN bookings |->
                    IF i \in bookings_of_day(bookings, barber_id, date)
                      THEN [bookings[i] EXCEPT !.status = "cancelled"]
                      ELSE bookings[i]]
  /\ UNCHANGED <<now, services, working_hours, payments, reqs>>

\* GET /bookings/available-times
get_available_times(barber_id, service_id, date) ==
  /\ last' = ReadResponse("available_times", barber_id, service_id, date,
               get_available_times_response(bookings, barber_id, service_id, date))
  /\ UNCHANGED <<now, bookings, services, working_hours, payments, reqs>>

(* ---------------------------------------------------------------------- *)
(* slots.validate_booking                                                 *)
(* ---------------------------------------------------------------------- *)
\* What POST /slots/validate-booking answers: a status and the valid flag.
ValidationAnswer(result, valid) == [result |-> result, valid |-> valid]

\* The service must exist; the interval must pass is_slot_available; the
\* worker must have a working row for the weekday of the start; the time of
\* the start must not be before that row's start_time nor at or after its
\* end_time.
validate_booking_response(table, worker_id, service_id, start_time) ==
  IF service_id \notin DOMAIN services
    THEN ValidationAnswer("NotFound", FALSE)
    ELSE
      LET end_time == start_time + services[service_id].duration
          rows == working_hours_working(worker_id, weekday(start_time))
          booking_time == time_of_day(start_time)
      IN  IF ~is_slot_available(table, worker_id, start_time, end_time)
            THEN ValidationAnswer("ok", FALSE)
            ELSE IF rows = <<>>
                   THEN ValidationAnswer("ok", FALSE)
                   ELSE IF \/ booking_time < rows[1].start_time
                           \/ booking_time >= rows[1].end_time
                          THEN ValidationAnswer("ok", FALSE)
                          ELSE ValidationAnswer("ok", TRUE)

\* POST /slots/validate-booking
validate_booking(worker_id, service_id, start_time) ==
  /\ last' =
       LET answer == validate_booking_response(bookings, worker_id,
                                               service_id, start_time)
       IN  [op |-> "validate", id |-> worker_id, at |-> start_time,
            result |-> answer.result, service_id |-> service_id,
            valid |-> answer.valid]
  /\ UNCHANGED <<now, bookings, services, working_hours, payments, reqs>>

(* ---------------------------------------------------------------------- *)
(* business.update_worker_hours, barber.add_barber_service                *)
(* ---------------------------------------------------------------------- *)

\* Rows of business_workers: (business_id, worker_id)
business_workers == {<<1, 2>>, <<1, 3>>}

\* A WorkerHourSchema: the times are "HH:MM" strings.
WorkerHour(day, s, e, w) ==
  [day_of_week |-> day, start_time |-> time_slot(hour(s), minute(s)),
   end_time |-> time_slot(hour(e), minute(e)), is_working |-> w]

\* start_time.split(":") and time(int(parts[0]), int(parts[1])), per rule
worker_hours_rows(worker_id, hours_data) ==
  [k \in 1..Len(hours_data) |->
     [barber_id   |-> worker_id,
      day_of_week |-> hours_data[k].day_of_week,
      start_time  |-> time(hours_data[k].start_time[1], hours_data[k].start_time[2]),
      end_time    |-> time(hours_data[k].end_time[1], hours_data[k].end_time[2]),
      is_working  |-> hours_data[k].is_working]]

\* PUT /business/workers/{worker_id}/hours: delete the worker's rows, add one
\* row per submitted rule, commit.
update_worker_hours(business_id, worker_id, hours_data) ==
  /\ IF <<business_id, worker_id>> \notin business_workers
       THEN /\ working_hours' = working_hours
            /\ last' = Response("worker_hours", worker_id, 0, "NotFound")
       ELSE /\ working_hours' =
                 SelectSeq(working_hours, LAMBDA wh : wh.barber_id # worker_id)
                   \o worker_hours_rows(worker_id, hours_data)
            /\ last' = Response("worker_hours", worker_id, 0, "ok")
  /\ UNCHANGED <<now, bookings, services, payments, reqs>>

\* crud_barber.create_barber_service: Service(**service.dict(), barber_id=...)
create_barber_service(table, service, barber_id) ==
  Append(table, [barber_id   |-> barber_id,
                 business_id |-> NoBusiness,
                 duration    |-> service.duration,
                 price       |-> service.price])

\* A cap on the rows of the services table.
MaxServices == 5

\* POST /barbers/{barber_id}/services
add_barber_service(user_id, barber_id, service) ==
  /\ Len(services) < MaxServices
  /\ users[user_id].is_active
  /\ IF user_id # barber_id \/ ~users[user_id].is_barber
       THEN /\ services' = services
            /\ last' = Response("add_service", 0, 0, "Forbidden")
       ELSE /\ services' = create_barber_service(services, service, barber_id)
            /\ last' = Response("add_service", Len(services) + 1, 0, "ok")
  /\ UNCHANGED <<now, bookings, working_hours, payments, reqs>>

(* ---------------------------------------------------------------------- *)
(* payments: create_payment, complete_stripe_payment, process_refund      *)
(* ---------------------------------------------------------------------- *)

\* Columns of the mapped class Payment with the columns the router passes.
PaymentColumnsWithRouterFields ==
  {"id", "booking_id", "user_id", "amount", "currency", "status",
   "payment_method", "transaction_id", "created_at", "updated_at",
   "business_id", "stripe_payment_id", "invoice_number", "notes",
   "refund_amount", "refund_reason", "stripe_refund_id"}

\* Columns of the mapped class Payment.
PaymentColumns ==
  {"id", "booking_id", "user_id", "amount", "currency", "status",
   "payment_method", "transaction_id", "created_at", "updated_at"}

\* Keyword arguments of models.Payment(...) in both payment handlers.
PaymentKwargs ==
  {"booking_id", "user_id", "business_id", "amount", "payment_method",
   "status", "stripe_payment_id", "invoice_number", "notes"}

\* The declarative constructor accepts mapped attributes only.
PaymentConstructible == PaymentKwargs \subseteq PaymentColumns

PaymentInputs ==
  {[payment_method |-> "online",  stripe_token |-> TRUE,  amount |-> 100],
   [payment_method |-> "cash",    stripe_token |-> FALSE, amount |-> 100],
   [payment_method |-> "deposit", stripe_token |-> FALSE, amount |-> 5],
   [payment_method |-> "deposit", stripe_token |-> FALSE, amount |-> 20]}

existing_payment(booking_id) ==
  {k \in DOMAIN payments : payments[k].booking_id = booking_id}

\* booking.service resolves and carries a business_id
booking_service_valid(booking_id) ==
  /\ bookings[booking_id].service_id \in DOMAIN services
  /\ services[bookings[booking_id].service_id].business_id # NoBusiness

\* payment_status as decided by the payment method
payment_status(data) ==
  IF data.payment_method = "online" /\ data.stripe_token
    THEN "completed"
    ELSE IF data.payment_method = "deposit" THEN "completed" ELSE "pending"

\* deposit below 10% of the service price
deposit_too_small(booking_id, data) ==
  /\ data.payment_method = "deposit"
  /\ data.amount * 10 < services[bookings[booking_id].service_id].price

payment_row(user_id, booking_id, amount, method, status) ==
  [booking_id     |-> booking_id,
   user_id        |-> user_id,
   business_id    |-> services[bookings[booking_id].service_id].business_id,
   amount         |-> amount,
   payment_method |-> method,
   status         |-> status]

\* Outcome of create_payment before it writes anything.
create_payment_result(user_id, booking_id, data) ==
  IF ~(booking_id \in BookingIds /\ bookings[booking_id].user_id = user_id)
    THEN "NotFound"
    ELSE IF existing_payment(booking_id) # {}
      THEN "PaymentExists"
      ELSE IF ~booking_service_valid(booking_id)
        THEN "InvalidService"
        ELSE IF deposit_too_small(booking_id, data)
          THEN "DepositTooSmall"
          ELSE IF ~PaymentConstructible THEN "ServerError" ELSE "ok"

\* POST /payments/
create_payment(user_id, booking_id, data) ==
  /\ LET res == create_payment_result(user_id, booking_id, data)
     IN  IF res = "ok"
           THEN /\ payments' = Append(payments,
                     payment_row(user_id, booking_id, data.amount,
                                 data.payment_method, payment_status(data)))
                /\ bookings' =
                     IF payment_status(data) = "completed"
                       THEN [bookings EXCEPT ![booking_id].status = "confirmed"]
                       ELSE bookings
                /\ last' = Response("create_payment", booking_id, 0, "ok")
           ELSE /\ UNCHANGED <<payments, bookings>>
                /\ last' = Response("create_payment", booking_id, 0, res)
  /\ UNCHANGED <<now, services, working_hours, reqs>>

\* Outcome of complete_stripe_payment before it writes anything; paid is the
\* payment_status of the retrieved checkout session.
complete_stripe_payment_result(user_id, booking_id, paid) ==
  IF ~(booking_id \in BookingIds /\ bookings[booking_id].user_id = user_id)
    THEN "NotFound"
    ELSE IF existing_payment(booking_id) # {}
      THEN "AlreadyRecorded"
      ELSE IF ~paid
        THEN "ServerError"
        ELSE IF ~booking_service_valid(booking_id)
          THEN "ServerError"
          ELSE IF ~PaymentConstructible THEN "ServerError" ELSE "ok"

\* POST /payments/stripe/complete
complete_stripe_payment(user_id, booking_id, paid) ==
  /\ LET res == complete_stripe_payment_result(user_id, booking_id, paid)
     IN  IF res = "ok"
           THEN /\ payments' = Append(payments,
                     payment_row(user_id, booking_id,
                                 services[bookings[booking_id].service_id].price,
                                 "online", "completed"))
                /\ bookings' = [bookings EXCEPT ![booking_id].status = "confirmed"]
                /\ last' = Response("complete_payment", booking_id, 0, "ok")
           ELSE /\ UNCHANGED <<payments, bookings>>
                /\ last' = Response("complete_payment", booking_id, 0, res)
  /\ UNCHANGED <<now, services, working_hours, reqs>>

BusinessIds == {1}

\* Outcome of process_refund before it writes anything; the payment query
\* filters on Payment.business_id.
process_refund_result(business_id, payment_id, amount) ==
  IF ~("business_id" \in PaymentColumns)
    THEN "ServerError"
    ELSE IF ~(payment_id \in DOMAIN payments
              /\ payments[payment_id].business_id = business_id)
      THEN "NotFound"
      ELSE IF payments[payment_id].status # "completed"
        THEN "NotRefundable"
        ELSE IF (IF amount # 0 THEN amount ELSE payments[payment_id].amount)
                  > payments[payment_id].amount
          THEN "RefundTooLarge"
          ELSE "ok"

\* POST /payments/refund
process_refund(business_id, payment_id, amount) ==
  /\ LET res == process_refund_result(business_id, payment_id, amount)
     IN  IF res = "ok"
           THEN LET refund == IF amount # 0 THEN amount
                                            ELSE payments[payment_id].amount
                    bid    == payments[payment_id].booking_id
                IN  /\ payments' = [payments EXCEPT ![payment_id].status =
                          IF refund = payments[payment_id].amount
                            THEN "refunded" ELSE "partially_refunded"]
                    /\ bookings' =
                         IF bid \in BookingIds
                           THEN [bookings EXCEPT ![bid].status = "cancelled"]
                           ELSE bookings
                    /\ last' = Response("refund", bid, 0, "ok")
           ELSE /\ UNCHANGED <<payments, bookings>>
                /\ last' = Response("refund", 0, 0, res)
  /\ UNCHANGED <<now, services, working_hours, reqs>>

(* ---------------------------------------------------------------------- *)
(* Administrative completion (specification section 4.3)                  *)
(* ---------------------------------------------------------------------- *)
complete_booking(booking_id) ==
  /\ booking_id \in BookingIds
  /\ bookings[booking_id].status \in {"pending", "confirmed"}
  /\ bookings' = [bookings EXCEPT ![booking_id].status = "completed"]
  /\ last' = Response("complete", booking_id, 0, "ok")
  /\ UNCHANGED <<now, services, working_hours, payments, reqs>>

(* ---------------------------------------------------------------------- *)
(* Concurrent admission: create_new_booking served for several requests   *)
(* at once.  A request runs the validation and the conflict query of      *)
(* create_booking on the committed rows, and later db.add + db.commit.    *)
(* ---------------------------------------------------------------------- *)
ReqIds == 1..2

NoRequest ==
  [pc |-> "idle", user_id |-> 0, barber_id |-> 0, service_id |-> 0,
   start_time |-> 0, result |-> "none"]

\* lines 27-63 of the router and lines 16-39 of create_booking
create_new_booking_query(r, user_id, barber_id, service_id, start_time) ==
  /\ reqs[r].pc = "idle"
  /\ users[user_id].is_active
  /\ LET res == create_new_booking_result(barber_id, service_id, start_time)
         req == [pc |-> IF res = "ok" THEN "checked" ELSE "done",
                 user_id |-> user_id, barber_id |-> barber_id,
                 service_id |-> service_id, start_time |-> start_time,
                 result |-> IF res = "ok" THEN "none" ELSE res]
     IN  /\ reqs' = [reqs EXCEPT ![r] = req]
         /\ last' = IF res = "ok" THEN last
                                  ELSE Response("create", 0, start_time, res)
  /\ UNCHANGED <<now, bookings, services, working_hours, payments>>

\* lines 42-46 of create_booking: db.add, db.commit, db.refresh
create_new_booking_commit(r) ==
  /\ reqs[r].pc = "checked"
  /\ bookings' = Append(bookings,
        new_booking(reqs[r].user_id, reqs[r].barber_id, reqs[r].service_id,
                    reqs[r].start_time))
  /\ reqs' = [reqs EXCEPT ![r].pc = "done", ![r].result = "ok"]
  /\ last' = Response("create", Len(bookings) + 1, reqs[r].start_time, "ok")
  /\ UNCHANGED <<now, services, working_hours, payments>>

(* ---------------------------------------------------------------------- *)
(* update_barber_working_hours statement by statement, in a transaction   *)
(* ---------------------------------------------------------------------- *)

\* The transaction of a replacement: the provider, the submitted list and
\* the number of rules already added to the session.
HoursRequest(barber_id, submitted, added) ==
  [pc |-> "hours", barber_id |-> barber_id, submitted |-> submitted,
   added |-> added]

\* DELETE of the provider's rows that is committed at once
update_barber_working_hours_delete_committed(r, barber_id, submitted) ==
  /\ reqs[r].pc = "idle"
  /\ users[barber_id].is_active /\ users[barber_id].is_barber
  /\ reqs' = [reqs EXCEPT ![r] = HoursRequest(barber_id, submitted, 0)]
  /\ working_hours' =
       SelectSeq(working_hours, LAMBDA wh : wh.barber_id # barber_id)
  /\ UNCHANGED <<now, bookings, services, payments, last>>

\* db.query(WorkingHours).filter(barber_id).delete(): executed inside the
\* transaction of the request, not visible to other sessions
update_barber_working_hours_delete(r, barber_id, submitted) ==
  /\ reqs[r].pc = "idle"
  /\ users[barber_id].is_active /\ users[barber_id].is_barber
  /\ reqs' = [reqs EXCEPT ![r] = HoursRequest(barber_id, submitted, 0)]
  /\ UNCHANGED <<now, bookings, services, working_hours, payments, last>>

\* db.add(db_wh) for the next rule of the list
update_barber_working_hours_add(r) ==
  /\ reqs[r].pc = "hours"
  /\ reqs[r].added < Len(reqs[r].submitted)
  /\ reqs' = [reqs EXCEPT ![r].added = @ + 1]
  /\ UNCHANGED <<now, bookings, services, working_hours, payments, last>>

\* db.commit(): the delete and the added rows become visible together
update_barber_working_hours_commit(r) ==
  /\ reqs[r].pc = "hours"
  /\ reqs[r].added = Len(reqs[r].submitted)
  /\ working_hours' =
       update_barber_working_hours(working_hours, reqs[r].barber_id,
                                   reqs[r].submitted)
  /\ reqs' = [reqs EXCEPT ![r] = NoRequest]
  /\ last' = Response("hours", reqs[r].barber_id, 0, "ok")
  /\ UNCHANGED <<now, bookings, services, payments>>

\* The request fails before its commit: the session is closed and the
\* transaction rolled back.
update_barber_working_hours_rollback(r) ==
  /\ reqs[r].pc = "hours"
  /\ reqs' = [reqs EXCEPT ![r] = NoRequest]
  /\ last' = Response("hours", reqs[r].barber_id, 0, "ServerError")
  /\ UNCHANGED <<now, bookings, services, working_hours, payments>>

(* ---------------------------------------------------------------------- *)
(* The clock                                                              *)
(* ---------------------------------------------------------------------- *)
Tick ==
  /\ \E t \in ClockValues : t > now /\ now' = t
  /\ UNCHANGED <<bookings, services, working_hours, payments, reqs, last>>

(* ---------------------------------------------------------------------- *)
(* Specifications                                                         *)
(* ---------------------------------------------------------------------- *)
Init ==
  /\ now = BaseTime - Quarter
  /\ bookings = <<>>
  /\ services = InitServices
  /\ working_hours = <<>>
  /\ payments = <<>>
  /\ reqs = [r \in ReqIds |-> NoRequest]
  /\ last = Response("none", 0, 0, "ok")

CreateStep ==
  \E u \in Customers, b \in BarberInputs, s \in ServiceInputs, t \in StartTimes :
    create_new_booking(u, b, s, t)

CancelStep ==
  \E u \in UserIds, i \in 1..MaxBookings : cancel_my_booking(u, i)

NextLifecycle == CreateStep \/ CancelStep \/ Tick

SpecLifecycle == Init /\ [][NextLifecycle]_vars

HoursStep ==
  \E u \in UserIds, b \in BarberInputs, h \in HoursInputs :
    set_barber_working_hours(u, b, h)

CreatePaymentStep ==
  \E u \in Customers, i \in 1..MaxBookings, d \in PaymentInputs :
    create_payment(u, i, d)

CompletePaymentStep ==
  \E u \in Customers, i \in 1..MaxBookings, paid \in BOOLEAN :
    complete_stripe_payment(u, i, paid)

RefundStep ==
  \E bz \in BusinessIds, k \in 1..MaxBookings, a \in {0, 20} :
    process_refund(bz, k, a)

CompleteStep == \E i \in 1..MaxBookings : complete_booking(i)

NextSchedule == CreateStep \/ HoursStep \/ Tick

SpecSchedule == Init /\ [][NextSchedule]_vars

QueryStep ==
  \E r \in ReqIds, u \in Customers, b \in BarberInputs, s \in ServiceInputs,
     t \in StartTimes :
    create_new_booking_query(r, u, b, s, t)

CommitStep == \E r \in ReqIds : create_new_booking_commit(r)

NextRace == QueryStep \/ CommitStep

SpecRace == Init /\ [][NextRace]_vars

Next ==
  \/ CreateStep
  \/ CancelStep
  \/ CreatePaymentStep
  \/ CompletePaymentStep
  \/ RefundStep
  \/ CompleteStep
  \/ Tick

Spec == Init /\ [][Next]_vars

\* The handlers that write a booking after its creation, on the bookings of
\* provider 2.
BillingCreateStep ==
  \E s \in {1, 2}, t \in StartTimes : create_new_booking(1, 2, s, t)

BillingCancelStep == \E i \in 1..MaxBookings : cancel_my_booking(1, i)

NextBilling ==
  \/ BillingCreateStep
  \/ BillingCancelStep
  \/ CreatePaymentStep
  \/ CompletePaymentStep
  \/ RefundStep
  \/ CompleteStep
  \/ Tick

SpecBilling == Init /\ [][NextBilling]_vars

\* Admission with provider and service ids of every kind: a customer, a
\* provider, a provider that is not active, an id without a user.
MissingUser == Cardinality(UserIds) + 1

ProviderInputs == {1, 2, 4, MissingUser}

ProviderServiceInputs == {1, 3, 4, MissingId}

ProviderCreateStep ==
  \E b \in ProviderInputs, s \in ProviderServiceInputs, t \in StartTimes :
    create_new_booking(1, b, s, t)

NextProvider == ProviderCreateStep \/ BillingCancelStep \/ Tick

SpecProvider == Init /\ [][NextProvider]_vars

\* Two providers side by side: bookings, hours and reads of providers 2 and 3.
ScopeProviders == {2, 3}

ScopeCreateStep ==
  \E b \in ScopeProviders, t \in StartTimes :
    \E s \in {k \in DOMAIN services : services[k].barber_id = b /\ services[k].duration = 2 * Quarter} :
      create_new_booking(1, b, s, t)

ScopeHoursStep ==
  \E b \in ScopeProviders :
    set_barber_working_hours(b, b, <<Rule(0, BaseTime, BaseTime + 4 * Quarter, TRUE)>>)

ScopeReadStep ==
  \E w \in ScopeProviders :
    \/ get_available_slots(w, 1, 0)
    \/ get_available_time_slots(w, 1, 0)
    \/ get_available_times(w, 1, 0)

NextScope == ScopeCreateStep \/ BillingCancelStep \/ ScopeHoursStep \/ ScopeReadStep

SpecScope == Init /\ [][NextScope]_vars

\* The handlers that take a rule list or a service from the request body.
WeekInputs ==
  {<<Rule(0, BaseTime, BaseTime + 4 * Quarter, TRUE)>>,
   <<Rule(0, BaseTime, BaseTime + 2 * Quarter, TRUE),
     Rule(0, BaseTime + 2 * Quarter, BaseTime + 4 * Quarter, TRUE)>>,
   <<Rule(7, BaseTime, BaseTime + 4 * Quarter, TRUE)>>}

WorkerWeekInputs ==
  {<<WorkerHour(1, BaseTime, BaseTime + 4 * Quarter, TRUE)>>,
   <<WorkerHour(1, BaseTime, BaseTime + 2 * Quarter, TRUE),
     WorkerHour(1, BaseTime + 2 * Quarter, BaseTime + 4 * Quarter, FALSE)>>}

ServiceBodies ==
  {[duration |-> d, price |-> 50] : d \in {0 - Quarter, 0, Quarter}}

WeekStep ==
  \E u \in {1, 2, 3}, h \in WeekInputs : set_barber_working_hours(u, 2, h)

WorkerWeekStep ==
  \E bz \in BusinessIds, w \in {1, 2, 3}, h \in WorkerWeekInputs :
    update_worker_hours(bz, w, h)

AddServiceStep ==
  \E u \in {1, 2}, sv \in ServiceBodies : add_barber_service(u, 2, sv)

NextInput == WeekStep \/ WorkerWeekStep \/ AddServiceStep

SpecInput == Init /\ [][NextInput]_vars

\* Admission with database statements that may fail.
ProviderCommitFailsStep ==
  \E b \in ProviderInputs, s \in ProviderServiceInputs, t \in StartTimes :
    create_new_booking_commit_fails(1, b, s, t)

ProviderRefreshFailsStep ==
  \E b \in ProviderInputs, s \in ProviderServiceInputs, t \in StartTimes :
    create_new_booking_refresh_fails(1, b, s, t)

NextAdmission ==
  NextProvider \/ ProviderCommitFailsStep \/ ProviderRefreshFailsStep

SpecAdmission == Init /\ [][NextAdmission]_vars

\* A replacement of provider 2's week, statement by statement, with reads of
\* its schedule in between.
ReplaceInputs ==
  {<<Rule(0, BaseTime, BaseTime + 2 * Quarter, TRUE),
     Rule(1, BaseTime, BaseTime + 2 * Quarter, TRUE)>>,
   <<Rule(0, BaseTime, BaseTime + 4 * Quarter, TRUE),
     Rule(1, BaseTime, BaseTime + 4 * Quarter, FALSE)>>}

ReplaceDeleteStep ==
  \E h \in ReplaceInputs : update_barber_working_hours_delete(1, 2, h)

ReplaceAddStep == update_barber_working_hours_add(1)

ReplaceCommitStep == update_barber_working_hours_commit(1)

ReplaceRollbackStep == update_barber_working_hours_rollback(1)

ReplaceReadStep ==
  \E s \in {1, 2}, d \in {0, 1} :
    \/ get_available_slots(2, s, d)
    \/ get_available_time_slots(2, s, d)
    \/ get_available_times(2, s, d)

NextReplace ==
  \/ ReplaceDeleteStep
  \/ ReplaceAddStep
  \/ ReplaceCommitStep
  \/ ReplaceRollbackStep
  \/ ReplaceReadStep

SpecReplace == Init /\ [][NextReplace]_vars

\* Reads of the schedule of provider 2 next to the writes they depend on.
ReadWorkers == {1, 2}

ReadServices == {1, 2, MissingId}

ReadDates == {0, 1}

ReadHoursInputs ==
  {<<Rule(0, BaseTime, BaseTime + 4 * Quarter, TRUE)>>,
   <<Rule(0, BaseTime, BaseTime + 4 * Quarter, FALSE),
     Rule(1, BaseTime, BaseTime + 2 * Quarter, TRUE)>>}

ReadCreateStep == \E t \in StartTimes : create_new_booking(1, 2, 1, t)

ReadCancelStep == \E i \in 1..MaxBookings : cancel_my_booking(1, i)

ReadHoursStep == \E h \in ReadHoursInputs : set_barber_working_hours(2, 2, h)

SlotsStep ==
  \E w \in ReadWorkers, s \in ReadServices, d \in ReadDates :
    get_available_slots(w, s, d)

AvailableSlotsStep ==
  \E w \in ReadWorkers, s \in ReadServices, d \in ReadDates :
    get_available_time_slots(w, s, d)

AvailableTimesStep ==
  \E w \in ReadWorkers, s \in ReadServices, d \in ReadDates :
    get_available_times(w, s, d)

NextRead ==
  \/ ReadCreateStep
  \/ ReadCancelStep
  \/ ReadHoursStep
  \/ SlotsStep
  \/ AvailableSlotsStep
  \/ AvailableTimesStep
  \/ Tick

SpecRead == Init /\ [][NextRead]_vars

\* The same with the administrative completion of a booking.
NextReadStatus == NextRead \/ CompleteStep

SpecReadStatus == Init /\ [][NextReadStatus]_vars

\* The validation of a requested booking next to the writes it depends on.
ValidateStep ==
  \E s \in ReadServices, d \in ReadDates, t \in StartTimes :
    validate_booking(2, s, combine(d, time_of_day(t)))

NextValidate ==
  \/ ReadCreateStep
  \/ ReadCancelStep
  \/ ReadHoursStep
  \/ ValidateStep
  \/ Tick

SpecValidate == Init /\ [][NextValidate]_vars

\* The reads on a fixed schedule: one rule for Mondays, at most one booking.
OpenTime == 9 * 60

CloseTime == 17 * 60

SlotRules ==
  {<<Rule(0, OpenTime, CloseTime, TRUE)>>,
   <<Rule(0, OpenTime, BaseTime + 4 * Quarter, TRUE)>>,
   <<Rule(0, OpenTime, CloseTime, FALSE)>>}

SlotDates == {0, 7}

SlotServices == {1, 2}

InitSlots ==
  /\ now = BaseTime - Quarter
  /\ services = InitServices
  /\ bookings \in {<<>>} \cup {<<new_booking(1, 2, 1, combine(d, BaseTime))>> :
                                 d \in SlotDates}
  /\ working_hours \in {update_barber_working_hours(<<>>, 2, h) : h \in SlotRules}
  /\ payments = <<>>
  /\ reqs = [r \in ReqIds |-> NoRequest]
  /\ last = Response("none", 0, 0, "ok")

NextSlots ==
  \/ \E s \in SlotServices, d \in SlotDates : get_available_times(2, s, d)
  \/ \E s \in SlotServices, d \in SlotDates : get_available_time_slots(2, s, d)
  \/ \E s \in SlotServices, d \in SlotDates : get_available_slots(2, s, d)
  \/ Tick

SpecSlots == InitSlots /\ [][NextSlots]_vars

(* ---------------------------------------------------------------------- *)
(* Properties                                                             *)
(* ---------------------------------------------------------------------- *)

\* intervalsOverlap of the specification, section 4.1
IntervalsOverlap(aStart, aEnd, bStart, bEnd) == aStart < bEnd /\ aEnd > bStart

\* Active booking of the glossary: status pending or confirmed
Active(b) == b.status \in {"pending", "confirmed"}

\* Two rows of the table are active, of one provider, and overlap.
DoubleBooked(table, i, j) ==
  /\ i # j
  /\ table[i].barber_id = table[j].barber_id
  /\ Active(table[i])
  /\ Active(table[j])
  /\ IntervalsOverlap(table[i].start_time, table[i].end_time,
                      table[j].start_time, table[j].end_time)

\* The request passes steps 1-3 of createBooking: the provider resolves, the
\* service is the provider's, the start is not in the past.
Admissible(barber_id, service_id, start_time) ==
  /\ barber_id \in UserIds
  /\ users[barber_id].is_barber
  /\ service_id \in DOMAIN services
  /\ services[service_id].barber_id = barber_id
  /\ start_time >= now

\* Some active booking of the provider overlaps [start_time, end_time).
Occupied(barber_id, start_time, end_time) ==
  \E i \in BookingIds :
    /\ bookings[i].barber_id = barber_id
    /\ Active(bookings[i])
    /\ IntervalsOverlap(bookings[i].start_time, bookings[i].end_time,
                        start_time, end_time)

\* C1: after any sequence of create_new_booking and cancel_my_booking calls
\* served one after the other, no provider has two active bookings whose
\* half-open intervals overlap.
C1_NoOverlapAfterCreateCancel ==
  \A i, j \in BookingIds : ~DoubleBooked(bookings, i, j)

\* A slot that was booked, cancelled and booked again: the cancelled row and
\* the confirmed row of one provider overlap.
C1_Witness ==
  \E i, j \in BookingIds :
    /\ i < j
    /\ bookings[i].barber_id = bookings[j].barber_id
    /\ bookings[i].status = "cancelled"
    /\ bookings[j].status = "confirmed"
    /\ IntervalsOverlap(bookings[i].start_time, bookings[i].end_time,
                        bookings[j].start_time, bookings[j].end_time)

\* C2: two concurrent requests for the same provider and the same interval:
\* exactly one is admitted, the other gets SlotConflict, and the provider has
\* exactly one more active booking.
C2_ExactlyOneWins ==
  \A r1, r2 \in ReqIds :
    ( /\ r1 # r2
      /\ reqs[r1].pc = "done"
      /\ reqs[r2].pc = "done"
      /\ reqs[r1].result \in {"ok", "SlotConflict"}
      /\ reqs[r2].result \in {"ok", "SlotConflict"}
      /\ reqs[r1].barber_id = reqs[r2].barber_id
      /\ reqs[r1].service_id = reqs[r2].service_id
      /\ reqs[r1].start_time = reqs[r2].start_time )
    => /\ {reqs[r1].result, reqs[r2].result} = {"ok", "SlotConflict"}
       /\ Cardinality({i \in BookingIds :
                         /\ bookings[i].barber_id = reqs[r1].barber_id
                         /\ Active(bookings[i])}) = 1

\* C3: in every reachable state of the booking store no provider has two
\* active bookings with overlapping intervals, whatever operations wrote it.
C3_NoOverlapInStore ==
  \A i \in BookingIds : \A j \in BookingIds : ~DoubleBooked(bookings, j, i)

\* C4: a request that passes the checks on provider, service and time, and
\* whose interval overlaps an active booking of the provider, fails with
\* SlotConflict and inserts nothing.
C4_OverlapRejected ==
  [][\A u \in Customers, b \in BarberInputs, s \in ServiceInputs,
        t \in StartTimes :
       ( /\ Admissible(b, s, t)
         /\ Occupied(b, t, t + services[s].duration)
         /\ create_new_booking(u, b, s, t) )
       => /\ last'.result = "SlotConflict"
          /\ bookings' = bookings]_vars

\* The scenario of the specification: a confirmed booking 10:00-10:30, and a
\* request for 10:15 that was answered SlotConflict.
C4_Witness ==
  /\ last.op = "create"
  /\ last.result = "SlotConflict"
  /\ last.at = BaseTime + Quarter
  /\ \E i \in BookingIds :
       /\ bookings[i].status = "confirmed"
       /\ bookings[i].start_time = BaseTime
       /\ bookings[i].end_time = BaseTime + 2 * Quarter
  /\ \A i \in BookingIds :
       bookings[i].status = "confirmed" => bookings[i].start_time = BaseTime

\* C5: a request that passes the checks on provider, service and time and
\* whose interval only touches active bookings of the provider (one ends
\* where it starts, or starts where it ends) is admitted; the conflict filter
\* is false on touching intervals in both orders.
C5_BoundaryAdmitted ==
  [][/\ \A u \in Customers, b \in BarberInputs, s \in ServiceInputs,
          t \in StartTimes :
         ( /\ Admissible(b, s, t)
           /\ ~Occupied(b, t, t + services[s].duration)
           /\ \E i \in BookingIds :
                /\ bookings[i].barber_id = b
                /\ Active(bookings[i])
                /\ \/ bookings[i].end_time = t
                   \/ bookings[i].start_time = t + services[s].duration
           /\ create_new_booking(u, b, s, t) )
         => /\ last'.result = "ok"
            /\ Len(bookings') = Len(bookings) + 1
     /\ \A t0, T, t1 \in StartTimes :
          t0 < T /\ T < t1 =>
            /\ ~existing_booking_filter(
                  [barber_id |-> 2, start_time |-> t0, end_time |-> T,
                   status |-> "confirmed"], 2, T, t1)
            /\ ~existing_booking_filter(
                  [barber_id |-> 2, start_time |-> T, end_time |-> t1,
                   status |-> "confirmed"], 2, t0, T)
            /\ is_slot_available(
                  <<[barber_id |-> 2, start_time |-> t0, end_time |-> T,
                     status |-> "confirmed"]>>, 2, T, t1)
            /\ is_slot_available(
                  <<[barber_id |-> 2, start_time |-> T, end_time |-> t1,
                     status |-> "confirmed"]>>, 2, t0, T)]_vars

\* Two confirmed bookings of one provider, the one created last ending
\* exactly where the earlier one starts.
C5_Witness ==
  /\ last.op = "create"
  /\ last.result = "ok"
  /\ \E i \in BookingIds :
       /\ i < last.id
       /\ bookings[i].barber_id = bookings[last.id].barber_id
       /\ bookings[i].status = "confirmed"
       /\ bookings[last.id].status = "confirmed"
       /\ bookings[last.id].end_time = bookings[i].start_time

\* C6: a request whose provider and service resolve and whose start is not
\* strictly after the current instant fails with InvalidTime and inserts
\* nothing.
C6_NotFutureRejected ==
  [][\A u \in Customers, b \in BarberInputs, s \in ServiceInputs,
        t \in StartTimes :
       ( /\ b \in UserIds
         /\ users[b].is_barber
         /\ s \in DOMAIN services
         /\ services[s].barber_id = b
         /\ t <= now
         /\ create_new_booking(u, b, s, t) )
       => /\ last'.result = "InvalidTime"
          /\ bookings' = bookings]_vars

\* Some rule of the provider makes the weekday of start_time a working day
\* and contains the wall-clock interval of the booking.
WithinWorkingHours(b) ==
  \E k \in DOMAIN working_hours :
    /\ working_hours[k].barber_id = b.barber_id
    /\ working_hours[k].day_of_week = weekday(b.start_time)
    /\ working_hours[k].is_working
    /\ working_hours[k].start_time <= time_of_day(b.start_time)
    /\ time_of_day(b.start_time) + (b.end_time - b.start_time)
         <= working_hours[k].end_time

\* C7: every booking is committed inside the working hours the provider has
\* at that moment.
C7_CommittedWithinWorkingHours ==
  [][\A i \in DOMAIN bookings' :
       i \notin BookingIds => WithinWorkingHours(bookings'[i])]_vars

\* C8: once a booking is cancelled or completed its status never changes.
C8_TerminalStatusKept ==
  [][\A i \in BookingIds :
       bookings[i].status \in {"cancelled", "completed"}
         => bookings'[i].status = bookings[i].status]_vars

\* C9: a cancellation succeeds exactly when the booking exists and the caller
\* is its customer (same email) or its provider; otherwise it is answered
\* NotFound and no status changes.
C9_CancelIffOwner ==
  [][\A u \in UserIds, i \in 1..MaxBookings :
       cancel_my_booking(u, i)
       => IF /\ i \in BookingIds
             /\ \/ bookings[i].customer_email = users[u].email
                \/ bookings[i].barber_id = u
            THEN last'.result = "ok"
            ELSE last'.result = "NotFound" /\ bookings' = bookings]_vars

\* C10: a successful cancellation sets the status of the targeted booking to
\* cancelled and changes nothing else: not its times, provider or service,
\* and no other booking.
C10_CancelFrame ==
  [][\A u \in UserIds, i \in 1..MaxBookings :
       (cancel_my_booking(u, i) /\ last'.result = "ok")
       => /\ DOMAIN bookings' = DOMAIN bookings
          /\ bookings'[i].status = "cancelled"
          /\ bookings'[i].start_time = bookings[i].start_time
          /\ bookings'[i].end_time = bookings[i].end_time
          /\ bookings'[i].barber_id = bookings[i].barber_id
          /\ bookings'[i].service_id = bookings[i].service_id
          /\ bookings'[i].user_id = bookings[i].user_id
          /\ bookings'[i].customer_email = bookings[i].customer_email
          /\ \A j \in BookingIds : j # i => bookings'[j] = bookings[j]]_vars

\* A booking was cancelled while another confirmed booking of the same
\* provider stays in the store.
C10_Witness ==
  /\ last.op = "cancel"
  /\ last.result = "ok"
  /\ last.id \in BookingIds
  /\ bookings[last.id].status = "cancelled"
  /\ \E j \in BookingIds :
       /\ j # last.id
       /\ bookings[j].barber_id = bookings[last.id].barber_id
       /\ bookings[j].status = "confirmed"

(* ---------------------------------------------------------------------- *)
(* Availability reads: vocabulary                                         *)
(* ---------------------------------------------------------------------- *)
ReadOps == {"slots_available", "available_slots", "available_times"}

IsRead(r) == r.op \in ReadOps

\* The step is one availability read that answered.
ReadStep == last' # last /\ IsRead(last')

\* The answer of the endpoint op on a bookings table.
ReadAnswer(table, op, worker_id, service_id, date) ==
  CASE op = "slots_available" ->
         get_available_slots_response(table, worker_id, service_id, date)
    [] op = "available_slots" ->
         get_available_time_slots_response(table, worker_id, service_id, date)
    [] OTHER ->
         get_available_times_response(table, worker_id, service_id, date)

\* Start instants of the candidates an answer returns, in order.
ReturnedStartsOf(op, slots, date) ==
  CASE op = "slots_available" -> [k \in DOMAIN slots |-> slots[k].start_time]
    [] op = "available_slots" -> slots
    [] OTHER -> [k \in DOMAIN slots |-> combine(date, strptime(slots[k]))]

\* Start instants an answer reports as available.
AvailableStartsOf(op, slots, date) ==
  IF op = "slots_available"
    THEN {slots[k].start_time : k \in {j \in DOMAIN slots : slots[j].available}}
    ELSE {ReturnedStartsOf(op, slots, date)[k] : k \in DOMAIN slots}

ReturnedStarts(r) == ReturnedStartsOf(r.op, r.slots, r.at)

AvailableStarts(r) == AvailableStartsOf(r.op, r.slots, r.at)

IsProvider(id) == id \in UserIds /\ users[id].is_barber

\* The table without the bookings that are not active.
ActiveOnly(table) == SelectSeq(table, Active)

\* C11: every booking enters the store with end_time = start_time + the
\* duration its service has at that moment, and no step of any handler
\* (cancel, payment, refund, completion) changes the start_time or end_time
\* of a stored booking or removes it.
C11_EndTimeFixedAtCreation ==
  [][ /\ DOMAIN bookings \subseteq DOMAIN bookings'
      /\ \A i \in DOMAIN bookings' :
           IF i \in DOMAIN bookings
             THEN /\ bookings'[i].start_time = bookings[i].start_time
                  /\ bookings'[i].end_time = bookings[i].end_time
             ELSE bookings'[i].end_time =
                    bookings'[i].start_time
                      + services[bookings'[i].service_id].duration ]_vars

\* A cancelled booking of the half-hour service still spans its half hour.
C11_Witness ==
  \E i \in BookingIds :
    /\ bookings[i].status = "cancelled"
    /\ services[bookings[i].service_id].duration = 2 * Quarter
    /\ bookings[i].end_time = bookings[i].start_time + 2 * Quarter

\* C12: while a booking made by create_booking is confirmed, no availability
\* read for its provider, on its date, reports as available a start t whose
\* [t, t + duration of the requested service) overlaps the booking.
C12_CommittedVisible ==
  \A i \in BookingIds :
    ( /\ bookings[i].status = "confirmed"
      /\ IsRead(last)
      /\ last.result = "ok"
      /\ last.id = bookings[i].barber_id
      /\ combine(last.at, 0) <= bookings[i].start_time
      /\ bookings[i].start_time < combine(last.at + 1, 0) )
    => \A t \in AvailableStarts(last) :
         ~IntervalsOverlap(t, t + services[last.service_id].duration,
                           bookings[i].start_time, bookings[i].end_time)

\* The provider's only rule for the weekday of the date is OpenTime-CloseTime
\* with is_working true.
RuleNineToFive(barber_id, date) ==
  working_hours_of(barber_id, weekday(combine(date, 0))) =
    <<[barber_id   |-> barber_id,
       day_of_week |-> weekday(combine(date, 0)),
       start_time  |-> OpenTime,
       end_time    |-> CloseTime,
       is_working  |-> TRUE]>>

\* The read answered for a half-hour service under RuleNineToFive, for a
\* date after today.
NineToFiveRead(r) ==
  /\ IsRead(r)
  /\ RuleNineToFive(r.id, r.at)
  /\ services[r.service_id].duration = 30
  /\ combine(r.at, 0) > now

\* C13: under the rule 09:00-17:00, for a service of 30 minutes and a
\* provider without bookings, each availability read returns exactly the 16
\* candidates 09:00, 09:30, ..., 16:30, all of them available.
C13_SixteenHalfHourSlots ==
  ( /\ NineToFiveRead(last)
    /\ \A i \in BookingIds : bookings[i].barber_id # last.id )
  => /\ last.result = "ok"
     /\ ReturnedStarts(last) =
          [k \in 1..16 |-> combine(last.at, OpenTime + 30 * (k - 1))]
     /\ AvailableStarts(last) =
          {ReturnedStarts(last)[k] : k \in DOMAIN ReturnedStarts(last)}

\* C14: a candidate is available if and only if no active booking of the
\* provider overlaps [t, t + D): the grid flags a slot available exactly when
\* none overlaps it, and the two lists return no start that one overlaps.
C14_AvailableIffNoActiveOverlap ==
  (IsRead(last) /\ last.result = "ok")
  => IF last.op = "slots_available"
       THEN \A k \in DOMAIN last.slots :
              last.slots[k].available
                <=> ~Occupied(last.id, last.slots[k].start_time,
                              last.slots[k].end_time)
       ELSE \A t \in AvailableStarts(last) :
              ~Occupied(last.id, t, t + services[last.service_id].duration)

\* C15: a read for today's date never reports as available a candidate that
\* starts before the current instant.
C15_NoPastSlotAvailable ==
  [][ (ReadStep /\ last'.at = now \div DayMinutes)
        => \A t \in AvailableStarts(last') : t >= now ]_vars

\* C16: the starts flagged available in the grid of slots.get_available_slots
\* are the starts returned by crud_booking.get_available_slots and by
\* booking.get_available_times for the same provider, service and date.
C16_ReadModelsAgree ==
  [][ (ReadStep /\ last'.op = "slots_available" /\ last'.result = "ok")
        => /\ AvailableStarts(last') =
                AvailableStartsOf("available_slots",
                  ReadAnswer(bookings, "available_slots", last'.id,
                             last'.service_id, last'.at).slots, last'.at)
           /\ AvailableStarts(last') =
                AvailableStartsOf("available_times",
                  ReadAnswer(bookings, "available_times", last'.id,
                             last'.service_id, last'.at).slots, last'.at) ]_vars

\* C17: bookings that are not active (cancelled, completed, rejected) do not
\* change the answer of an availability read: each read answers what it
\* would answer on the table without them.
C17_InactiveBookingsDoNotOccupy ==
  [][ ReadStep
        => /\ last'.result =
                ReadAnswer(ActiveOnly(bookings), last'.op, last'.id,
                           last'.service_id, last'.at).result
           /\ last'.slots =
                ReadAnswer(ActiveOnly(bookings), last'.op, last'.id,
                           last'.service_id, last'.at).slots ]_vars

\* No rule of the provider for the weekday of the date has is_working true.
NonWorkingDay(barber_id, date) ==
  working_hours_working(barber_id, weekday(combine(date, 0))) = <<>>

\* C18: for an existing provider and service, a read for a date whose weekday
\* has no rule of the provider, or only rules with is_working false, answers
\* an empty slot sequence and no error, on each of the three endpoints.
C18_NonWorkingDayEmpty ==
  ( /\ IsRead(last)
    /\ IsProvider(last.id)
    /\ last.service_id \in DOMAIN services
    /\ NonWorkingDay(last.id, last.at) )
  => last.result = "ok" /\ last.slots = <<>>

\* GET /bookings/available-slots has answered for a weekday whose rule says
\* is_working false, while the provider works on another day.
C18_Witness ==
  /\ last.op = "available_slots"
  /\ last.result = "ok"
  /\ last.slots = <<>>
  /\ \E k \in DOMAIN working_hours :
       /\ working_hours[k].barber_id = last.id
       /\ working_hours[k].day_of_week = weekday(combine(last.at, 0))
       /\ ~working_hours[k].is_working
  /\ \E k \in DOMAIN working_hours :
       working_hours[k].barber_id = last.id /\ working_hours[k].is_working

C20_UnknownProviderOrServiceNotFound ==
  (IsRead(last) /\ (~IsProvider(last.id) \/ last.service_id \notin DOMAIN services))
    => last.result = "NotFound"

\* The id resolves to a user that is marked as a provider and is active.
ActiveProvider(id) == IsProvider(id) /\ users[id].is_active

\* The service resolves and is the provider's.
ServiceOf(barber_id, service_id) ==
  service_id \in DOMAIN services /\ services[service_id].barber_id = barber_id

\* C21: for a provider that resolves, create_new_booking with a service id
\* that does not resolve or that is another provider's answers
\* ServiceNotFound and inserts nothing, and every stored booking pairs a
\* provider with one of its own services.
C21_ForeignServiceRejected ==
  [][ /\ \A i \in DOMAIN bookings' :
           ServiceOf(bookings'[i].barber_id, bookings'[i].service_id)
      /\ \A b \in ProviderInputs, s \in ProviderServiceInputs, t \in StartTimes :
           (IsProvider(b) /\ ~ServiceOf(b, s) /\ create_new_booking(1, b, s, t))
             => (last'.result = "ServiceNotFound" /\ bookings' = bookings) ]_vars

\* A request was answered ServiceNotFound while the store holds a booking.
C21_Witness ==
  /\ last.op = "create"
  /\ last.result = "ServiceNotFound"
  /\ bookings # <<>>

\* C22: create_new_booking for an id that is no user, a user that is not a
\* provider, or a provider that is not active answers BarberNotFound and
\* inserts nothing.
C22_InactiveProviderRejected ==
  [][ \A b \in ProviderInputs, s \in ProviderServiceInputs, t \in StartTimes :
        (~ActiveProvider(b) /\ create_new_booking(1, b, s, t))
          => (last'.result = "BarberNotFound" /\ bookings' = bookings) ]_vars

\* C23: the schedule store never holds two rows for one provider and one
\* day_of_week, whatever rule lists the replacements were given.
C23_OneRulePerProviderDay ==
  \A j, k \in DOMAIN working_hours :
    ( /\ working_hours[j].barber_id = working_hours[k].barber_id
      /\ working_hours[j].day_of_week = working_hours[k].day_of_week )
    => j = k

\* C26: no stored rule has a day_of_week outside 0..6 and no stored service
\* has a duration of zero or less; a request carrying one is answered
\* InvalidInput and stores nothing.
C26_MalformedInputRejected ==
  /\ \A k \in DOMAIN working_hours : working_hours[k].day_of_week \in 0..6
  /\ \A k \in DOMAIN services : services[k].duration > 0

\* The bookings of one provider, in table order.
OnlyOf(table, barber_id) == SelectSeq(table, LAMBDA b : b.barber_id = barber_id)

\* Row i is new or differs after the step.
RowChanged(i) == i \notin DOMAIN bookings \/ bookings'[i] # bookings[i]

\* C24: conflicts and availability are computed from the provider's own
\* bookings: a request is answered SlotConflict only if one of the
\* provider's own confirmed bookings overlaps it, a read answers what it
\* answers on the provider's bookings alone, and a step that creates or
\* cancels a booking changes rows of one provider only and no read of another.
C24_ScopedPerProvider ==
  [][ /\ \A i, j \in DOMAIN bookings' :
           (RowChanged(i) /\ RowChanged(j))
             => bookings'[i].barber_id = bookings'[j].barber_id
      /\ \A w \in ScopeProviders :
           ( /\ bookings' # bookings
             /\ working_hours' = working_hours
             /\ \A i \in DOMAIN bookings' :
                  bookings'[i].barber_id = w => ~RowChanged(i) )
             => \A op \in ReadOps :
                  ReadAnswer(bookings, op, w, 1, 0)' = ReadAnswer(bookings, op, w, 1, 0)
      /\ ReadStep
           => last'.slots = ReadAnswer(OnlyOf(bookings, last'.id), last'.op,
                                       last'.id, last'.service_id, last'.at).slots
      /\ \A b \in ScopeProviders, s \in DOMAIN services, t \in StartTimes :
           ( /\ last'.result = "SlotConflict"
             /\ services[s].barber_id = b
             /\ create_new_booking(1, b, s, t) )
             => existing_booking(OnlyOf(bookings, b), b, t,
                                 booking_end_time(s, t)) # {} ]_vars

\* Providers 2 and 3 both hold a confirmed booking over the same time and a
\* read for one of them has answered.
C24_Witness ==
  /\ IsRead(last)
  /\ last.slots # <<>>
  /\ \E i, j \in BookingIds :
       /\ bookings[i].barber_id # bookings[j].barber_id
       /\ bookings[i].status = "confirmed"
       /\ bookings[j].status = "confirmed"
       /\ IntervalsOverlap(bookings[i].start_time, bookings[i].end_time,
                           bookings[j].start_time, bookings[j].end_time)

\* The step is one call of POST /bookings/ that answered.
CreateAnswered == last' # last /\ last'.op = "create"

\* C25: a call of create_new_booking that fails, for whatever reason, leaves
\* the booking table as it was; a call that succeeds appends exactly one row,
\* with status confirmed, and changes no other row.
C25_AdmissionAllOrNothing ==
  [][ CreateAnswered
        => IF last'.result = "ok"
             THEN /\ Len(bookings') = Len(bookings) + 1
                  /\ \A i \in DOMAIN bookings : bookings'[i] = bookings[i]
                  /\ bookings'[Len(bookings')].status = "confirmed"
             ELSE bookings' = bookings ]_vars

\* The step between two candidates of the endpoint op.
StepOf(op) ==
  CASE op = "slots_available" -> slot_interval
    [] op = "available_slots" -> Quarter
    [] OTHER -> half_hours[2] - half_hours[1]

\* The start times workStart + k * step, k >= 0, that leave room for the
\* duration before workEnd, in ascending order.
SlotStarts(workStart, workEnd, duration, step) ==
  IF workStart + duration > workEnd
    THEN <<>>
    ELSE [k \in 1..((workEnd - workStart - duration) \div step + 1) |->
            workStart + (k - 1) * step]

\* C27: on a working day without bookings, for a date after today, each read
\* returns exactly the starts workStart + k * step with start + duration <=
\* workEnd, in ascending order: none past the end, none skipped.
C27_ExactSlotStarts ==
  ( /\ IsRead(last)
    /\ last.result = "ok"
    /\ combine(last.at, 0) > now
    /\ working_hours_working(last.id, weekday(combine(last.at, 0))) # <<>>
    /\ \A i \in BookingIds : bookings[i].barber_id # last.id )
  => LET rule == Head(working_hours_working(last.id, weekday(combine(last.at, 0))))
     IN  ReturnedStarts(last) =
           SlotStarts(combine(last.at, rule.start_time),
                      combine(last.at, rule.end_time),
                      services[last.service_id].duration, StepOf(last.op))

\* The rules of one provider, as the readers query them.
RulesOf(table, barber_id) ==
  SelectSeq(table, LAMBDA wh : wh.barber_id = barber_id)

C29_AvailableIsAdmitted ==
  ( /\ IsRead(last)
    /\ last.result = "ok"
    /\ ServiceOf(last.id, last.service_id) )
  => \A t \in AvailableStarts(last) :
       t >= now
         => create_new_booking_result(last.id, last.service_id, t)
              # "SlotConflict"

\* C30: validate_booking answers valid only if the provider has a working
\* rule for the weekday of the start that contains the whole interval
\* [start_time, start_time + duration), and no booking of the provider other
\* than a cancelled or rejected one overlaps the interval.
C30_ValidInsideHoursAndFree ==
  (last.op = "validate" /\ last.valid)
  => LET end_time == last.at + services[last.service_id].duration
     IN  /\ \E k \in DOMAIN working_hours :
              /\ working_hours[k].barber_id = last.id
              /\ working_hours[k].day_of_week = weekday(last.at)
              /\ working_hours[k].is_working
              /\ time_of_day(last.at) >= working_hours[k].start_time
              /\ time_of_day(last.at) + services[last.service_id].duration
                   <= working_hours[k].end_time
         /\ \A i \in BookingIds :
              ( /\ bookings[i].barber_id = last.id
                /\ bookings[i].status \notin {"cancelled", "rejected"} )
              => ~IntervalsOverlap(last.at, end_time,
                                   bookings[i].start_time,
                                   bookings[i].end_time)

====
